---- MODULE Spec2Model ----
(***************************************************************************)
(* A model of the Pinterest reporting scripts:                             *)
(*   - append_to_historical_data, the historical reconciler                *)
(*     (pinterest_organic_reports.py, pinterest_reports.py);               *)
(*   - get_date_ranges, the windowing planner;                             *)
(*   - get_pinterest_token, the credential provider (pinterest_oauth.py);  *)
(*   - upload_df_to_google_sheet and build_daily_paid_metrics_by_country   *)
(*     (pinterest_reports.py);                                             *)
(*   - one run of each script, from its import to its end.                 *)
(*                                                                         *)
(* A table (a pandas DataFrame, or the CSV file it is written to) is a     *)
(* sequence of rows.  A row is a record [date, id, val]: date is the       *)
(* 'date' column (an ISO date, modelled by a day number, so that string    *)
(* order, pd.to_datetime order and number order agree), id stands for the  *)
(* other key columns (pin_id, or country and campaign_id), val for the     *)
(* metric columns.  key_columns is (date, id).  A key cell the API did not *)
(* deliver (None in the DataFrame, an empty CSV field, NaN after           *)
(* read_csv) is the value NoValue.  Key cells are modelled in the form     *)
(* they have after a CSV round trip.                                       *)
(***************************************************************************)
EXTENDS Integers, Sequences, FiniteSets, TLC

\* ------------------------------------------------------------ bounds
\* dates are 1..MaxDate
MaxDate == 2
\* new_df has 1..MaxNew rows
MaxNew == 2
\* the planner's dates are 0..MaxDay, its max_days 1..MaxSpan
MaxDay == 5
MaxSpan == 3
\* the clock runs from 1 to MaxTime; an access token lives ExpiresIn units
MaxTime == 6
ExpiresIn == 2
\* an uploaded table has up to MaxWidth columns and, with its header row, up
\* to MaxHeight rows
MaxWidth == 27
MaxHeight == 2
\* df_historical has up to MaxAggRows rows
MaxAggRows == 2
\* get_top_pins_analytics returns the pins of up to MaxBatches chunks
MaxBatches == 2
\* a response holds up to MaxBlocks blocks (per pin, for the pins endpoint)
MaxBlocks == 2

\* None / NaN / NaT: a missing cell
NoValue == 0

Dates == 1..MaxDate
Ids == {1, 2}
Vals == {1, 2}

VARIABLES
    fileExists,     \* os.path.exists(historical_file)
    fileReadable,   \* pd.read_csv(historical_file) succeeds
    fileRows,       \* the table held by historical_file
    pc,             \* "idle": no call made yet in this run; "done": the call has ended
    new_df,         \* the new_df argument of the call that ended
    prevExists,     \* fileExists, fileReadable and fileRows when that call began
    prevReadable,
    prevRows,
    outcome,        \* how the call ended
    returned,       \* the DataFrame it returned (<<>> when it raised)
    io_log,         \* its accesses to the file's content, in order
    plan_pc,        \* get_date_ranges: "call", then "returned"
    plan_start,     \* its start_date
    plan_end,       \* its end_date
    plan_max,       \* its max_days
    ranges,         \* the list it returned
    tokenFileExists, \* TOKEN_FILE exists
    TOKEN_FILE,     \* the dict stored in TOKEN_FILE
    now,            \* int(time.time()), in units of 300 seconds
    tok_pc,         \* get_pinterest_token: "idle", "returned" or "raised"
    tokens,         \* the dict the call loaded
    access_token,   \* the token the call returned
    sheet,          \* the spreadsheet: for each tab, its cells that hold a value
    sheet_pc,       \* upload_df_to_google_sheet: "idle", "clear", "update",
                    \* "uploaded" or "raised"
    sheet_tab,      \* its sheet_tab
    values,         \* its values: the table to write, header row included
    api_calls,      \* the Sheets API calls it has executed, in order
    agg_pc,         \* build_daily_paid_metrics_by_country: "call", "returned"
                    \* or "raised"
    df_historical,  \* its argument: the column names and the rows
    agg_error,      \* the column names its ValueError names
    agg_df,         \* the table it returned
    campaign_types, \* the column df["campaign_type"] it derived, row by row
    script,         \* the script that runs: "paid" (pinterest_reports.py) or
                    \* "organic" (pinterest_organic_reports.py)
    run_pc,         \* its position
    ACCESS_TOKEN,   \* its module-level ACCESS_TOKEN
    google_sheet_id, \* GOOGLE_SHEET_ID is set
    chunks,         \* the fetches of its loop: date windows (paid), chunks of
                    \* pin_ids (organic)
    fetched,        \* how the fetch of each chunk handled so far ended
    all_data,       \* the rows the loop collected (all_country_data,
                    \* all_pin_details)
    requests,       \* the requests sent to the Pinterest API in the run
    paused,         \* time.sleep(1) was taken since the last of them
    accountFile,    \* pinterest_organic_account_historical.csv
    snapshots,      \* the CSV files written anew in each run
    caught,         \* the step whose exception the outer except printed
    norm_pc,        \* a normalizer: "call", "returned" or "raised"
    normalizer,     \* the function whose parsing code runs
    response,       \* the blocks of the JSON response it parses
    records         \* the records it built, one dict each

reconcileVars == <<fileExists, fileReadable, fileRows, pc, new_df, prevExists,
                   prevReadable, prevRows, outcome, returned, io_log>>
planVars == <<plan_pc, plan_start, plan_end, plan_max, ranges>>
tokenVars == <<tokenFileExists, TOKEN_FILE, now, tok_pc, tokens, access_token>>
sheetVars == <<sheet, sheet_pc, sheet_tab, values, api_calls>>
aggVars == <<agg_pc, df_historical, agg_error, agg_df, campaign_types>>
runVars == <<script, run_pc, ACCESS_TOKEN, google_sheet_id, chunks, fetched,
             all_data, requests, paused, accountFile, snapshots, caught>>
normVars == <<norm_pc, normalizer, response, records>>
vars == <<fileExists, fileReadable, fileRows, pc, new_df, prevExists,
          prevReadable, prevRows, outcome, returned, io_log,
          plan_pc, plan_start, plan_end, plan_max, ranges,
          tokenFileExists, TOKEN_FILE, now, tok_pc, tokens, access_token,
          sheet, sheet_pc, sheet_tab, values, api_calls,
          agg_pc, df_historical, agg_error, agg_df, campaign_types,
          script, run_pc, ACCESS_TOKEN, google_sheet_id, chunks, fetched,
          all_data, requests, paused, accountFile, snapshots, caught,
          norm_pc, normalizer, response, records>>

\* ------------------------------------------------------------ tables
Row(d, i, v) == [date |-> d, id |-> i, val |-> v]

\* rows of responses that differ in entity, and of responses that differ in
\* the metric reported for one entity; every key cell is filled
EntityRows == {Row(d, i, 1) : d \in Dates, i \in Ids}
RevisedRows == {Row(d, 1, v) : d \in Dates, v \in Vals}
\* rows of a response in which key cells may be missing
PartialRows == {Row(d, i, 1) : d \in Dates \cup {NoValue}, i \in {1, NoValue}}

SeqsUpTo(S, n) == UNION {[1..k -> S] : k \in 1..n}

\* the new_df arguments: never empty, the callers test len(df) > 0; in any
\* order, keys may repeat
FullInputs == SeqsUpTo(EntityRows, MaxNew) \cup SeqsUpTo(RevisedRows, MaxNew)
PartialInputs == SeqsUpTo(PartialRows, MaxNew)

KeyOf(r) == <<r.date, r.id>>

\* one column's order under sort_values: values ascending, missing cells last
CellLess(a, b) == IF a = NoValue THEN FALSE ELSE (b = NoValue \/ a < b)

\* the order of two key tuples (date first, then id)
KeyLess(a, b) ==
    \/ CellLess(a.date, b.date)
    \/ a.date = b.date /\ CellLess(a.id, b.id)

\* a deduplication that keeps the first row of each key (keep='first')
DropDuplicatesFirst(t) ==
    LET keep(i) == \A j \in 1..(i-1) : KeyOf(t[j]) # KeyOf(t[i])
        F[i \in 0..Len(t)] ==
            IF i = 0 THEN <<>>
            ELSE IF keep(i) THEN Append(F[i-1], t[i]) ELSE F[i-1]
    IN F[Len(t)]

\* df.drop_duplicates(subset=key_columns, keep='last')
DropDuplicatesLast(t) ==
    LET keep(i) == \A j \in (i+1)..Len(t) : KeyOf(t[j]) # KeyOf(t[i])
        F[i \in 0..Len(t)] ==
            IF i = 0 THEN <<>>
            ELSE IF keep(i) THEN Append(F[i-1], t[i]) ELSE F[i-1]
    IN F[Len(t)]

\* insert r after the rows that are not greater than it (stable)
InsertSorted(s, r) ==
    LET n == Cardinality({i \in 1..Len(s) : ~KeyLess(r, s[i])})
    IN SubSeq(s, 1, n) \o <<r>> \o SubSeq(s, n+1, Len(s))

\* df.sort_values(by=key_columns)
SortValues(t) ==
    LET F[i \in 0..Len(t)] ==
            IF i = 0 THEN <<>> ELSE InsertSorted(F[i-1], t[i])
    IN F[Len(t)]

DateCells(t) == {t[i].date : i \in 1..Len(t)}

\* Series.min() of a 'date' column raises TypeError when the column holds
\* both strings and missing cells (str is compared with float)
MinRaises(t) == NoValue \in DateCells(t) /\ DateCells(t) # {NoValue}

\* df['date'].min(): the earliest date, NaN when no cell is filled
DateMin(t) ==
    IF DateCells(t) \subseteq {NoValue} THEN NoValue
    ELSE CHOOSE d \in DateCells(t) \ {NoValue} :
             \A e \in DateCells(t) \ {NoValue} : d <= e

\* existing_df[pd.to_datetime(existing_df['date']) < historical_cutoff]:
\* a comparison with NaT on either side is False
OlderThan(t, cutoff) ==
    SelectSeq(t, LAMBDA r : r.date # NoValue /\ cutoff # NoValue /\ r.date < cutoff)

\* a cutoff per entity: a row is kept when it is older than the earliest row
\* of its own entity in new_df, or when new_df has no row of its entity
OldDataPerKey(existing, new) ==
    SelectSeq(existing, LAMBDA r :
        LET own == SelectSeq(new, LAMBDA n : n.id = r.id)
        IN own = <<>> \/ (r.date # NoValue /\ DateMin(own) # NoValue
                            /\ r.date < DateMin(own)))

\* old_data: the rows of the file older than the earliest date of new_df,
\* one cutoff for the whole of new_df
OldData(existing, new) == OlderThan(existing, DateMin(new))

\* combined_df of the merge path: concat, drop_duplicates, sort_values
Combined(existing, new) ==
    SortValues(DropDuplicatesLast(OldData(existing, new) \o new))

\* the table the bootstrap path writes and returns: new_df as it is
FirstTable(new) == new

\* a write that loses the last row of the table
Truncated(df) == IF df = <<>> THEN df ELSE SubSeq(df, 1, Len(df) - 1)

\* df.to_csv(historical_file, index=False): the file then holds the rows of
\* df, in the order of df, and no index column
to_csv(df) == df

\* a call that also starts afresh when the file cannot be loaded
BootstrapOrUnreadable(exists, readable) == ~exists \/ ~readable

\* if not os.path.exists(historical_file): the bootstrap path is taken
TakesBootstrapPath(exists, readable) == ~exists

\* How a call ends, as [outcome, exists, readable, rows, returned, io]; io
\* lists its pd.read_csv and to_csv on the file, in the order it made them
\*   "created"   the file did not exist and was written from new_df
\*   "ReadError" pd.read_csv raised
\*   "TypeError" a min() over a 'date' column raised, before the file is written
\*   "updated"   the merge path wrote combined_df
Call(exists, readable, rows, new) ==
    IF TakesBootstrapPath(exists, readable)
    THEN [outcome |-> "created", exists |-> TRUE, readable |-> TRUE,
          rows |-> to_csv(FirstTable(new)), returned |-> FirstTable(new),
          io |-> <<"to_csv">>]
    ELSE IF ~readable
    THEN [outcome |-> "ReadError", exists |-> exists, readable |-> readable,
          rows |-> rows, returned |-> <<>>, io |-> <<"read_csv">>]
    ELSE IF MinRaises(new) \/ MinRaises(rows)
    THEN [outcome |-> "TypeError", exists |-> exists, readable |-> readable,
          rows |-> rows, returned |-> <<>>, io |-> <<"read_csv">>]
    ELSE LET combined_df == Combined(rows, new)
         IN [outcome |-> "updated", exists |-> TRUE, readable |-> TRUE,
             rows |-> to_csv(combined_df), returned |-> combined_df,
             io |-> <<"read_csv", "to_csv">>]

\* ------------------------------------------------------------ the planner
\* get_date_ranges: the windows from cursor on, as <<start, end>> pairs
RECURSIVE RangesFrom(_, _, _)
RangesFrom(current_start, end, max_days) ==
    IF current_start < end
    THEN LET current_end == IF current_start + max_days < end
                            THEN current_start + max_days ELSE end
         IN <<<<current_start, current_end>>>>
                \o RangesFrom(current_end + 1, end, max_days)
    ELSE <<>>

\* windows whose cursor is not moved past the emitted window's end
RECURSIVE OverlappingFrom(_, _, _)
OverlappingFrom(current_start, end, max_days) ==
    IF current_start < end
    THEN LET current_end == IF current_start + max_days < end
                            THEN current_start + max_days ELSE end
         IN <<<<current_start, current_end>>>>
                \o OverlappingFrom(current_end, end, max_days)
    ELSE <<>>

OverlappingRanges(start, end, max_days) == OverlappingFrom(start, end, max_days)

\* get_date_ranges(start_date, end_date, max_days): it has no raise statement
\* and returns the list for every pair of dates
get_date_ranges(start, end, max_days) == RangesFrom(start, end, max_days)

\* ------------------------------------------------------------ credential
\* the refresh margin of get_pinterest_token, 300 seconds: the unit of time
RefreshMargin == 1

\* An access token is identified by the time at which the token endpoint
\* issued it; it is valid for ExpiresIn units from then on.
Expired(token, time) == time >= token + ExpiresIn

\* a dict without the four keys: tokens.get(...) is None for each
NoTokens ==
    [access_token |-> NoValue, refresh_token |-> FALSE,
     expires_in |-> NoValue, obtained_at |-> NoValue]

\* the JSON bodies of the token endpoint at a given time: a new access token
\* and its lifetime, with or without a refresh token
TokenResponses(time, refresh_choices) ==
    {[status |-> "ok", access_token |-> time, refresh_token |-> r,
      expires_in |-> ExpiresIn] : r \in refresh_choices}

\* resp.raise_for_status() raises
HTTPErrorResponse ==
    [status |-> "HTTPError", access_token |-> NoValue, refresh_token |-> FALSE,
     expires_in |-> NoValue]

\* save_tokens(token_data) at a given time: the file holds the response and
\* obtained_at, nothing of what it held before
save_tokens(token_data, time) ==
    [access_token |-> token_data.access_token,
     refresh_token |-> token_data.refresh_token,
     expires_in |-> token_data.expires_in,
     obtained_at |-> time]

\* load_tokens() finds every file
LoadNeverRaises(exists) == FALSE

\* load_tokens() raises FileNotFoundError
LoadRaises(exists) == ~exists

\* not expires_in or not obtained_at
NoExpiryInfo(t) == t.expires_in = NoValue \/ t.obtained_at = NoValue

\* now >= obtained_at + expires_in - 300 and refresh_token_val
RefreshDue(t, time) ==
    /\ time >= t.obtained_at + t.expires_in - RefreshMargin
    /\ t.refresh_token

\* get_pinterest_token() on the file (exists, file) at a given time, the
\* token endpoint answering resp if it is asked
GetToken(exists, file, time, resp) ==
    IF LoadRaises(exists)
    THEN [outcome |-> "RuntimeError", file |-> file, access_token |-> NoValue]
    ELSE IF NoExpiryInfo(file)
    THEN [outcome |-> "returned", file |-> file,
          access_token |-> file.access_token]
    ELSE IF RefreshDue(file, time)
    THEN IF resp.status = "HTTPError"
         THEN [outcome |-> "HTTPError", file |-> file, access_token |-> NoValue]
         ELSE [outcome |-> "returned", file |-> save_tokens(resp, time),
               access_token |-> resp.access_token]
    ELSE [outcome |-> "returned", file |-> file,
          access_token |-> file.access_token]

\* ------------------------------------------------------------ publishing
\* the columns of the range "A:Z"
ClearCols == 26

Tabs == {"Paid Metrics By Country", "Daily Paid Metrics By Country"}

\* the tables whose width lies around the right edge of A:Z
Shapes == [w : (ClearCols - 1)..MaxWidth, h : 1..MaxHeight]

\* A cell that holds a value: its row, its column, and whether the value was
\* put there by the upload in progress ("new") or was there before ("prior").
Cell(r, c, by) == [row |-> r, col |-> c, by |-> by]

\* the cells as an upload finds them
AsPrior(cells) == {Cell(x.row, x.col, "prior") : x \in cells}

\* sheet.values().clear(range = sheet_tab!A:Z)
Cleared(cells) == {x \in cells : x.col > ClearCols}

\* sheet.values().update(range = sheet_tab!A1, body = values): the cells of
\* the rectangle of values take the new values, the others keep theirs
Updated(cells, shape) ==
    {x \in cells : x.row > shape.h \/ x.col > shape.w}
        \cup {Cell(r, c, "new") : r \in 1..shape.h, c \in 1..shape.w}

NoShape == [w |-> 0, h |-> 0]

\* ------------------------------------------------------------ aggregation
\* A table given to build_daily_paid_metrics_by_country is a record of its
\* column names (columns) and its rows; a row holds its date, country and
\* campaign_name cells and, for each of the five metrics, the cell of the
\* column that col_map selects for it.  A metric cell without a value (NaN)
\* is NoValue, the values are positive.  A campaign name is the sequence of
\* its characters.
required_cols == <<"date", "country", "campaign_name">>

Canonical == <<"impressions", "clicks", "spend", "checkouts", "checkout_value">>

metric_candidates ==
    [impressions |-> <<"impressions", "IMPRESSION_1", "IMPRESSION_1_GROSS">>,
     clicks |-> <<"clicks", "CLICKTHROUGH_1">>,
     spend |-> <<"spend">>,
     checkouts |-> <<"checkouts", "TOTAL_CHECKOUT">>,
     checkout_value |-> <<"checkout_value", "TOTAL_CHECKOUT_VALUE_IN_DOLLAR">>]

\* a country cell that is NaN
NaN == "NaN"
\* a campaign_name cell that is NaN
NoName == <<>>

\* for col in required_cols: if col not in df.columns: raise ValueError(col)
\* the names the error lists: the first absent column
FirstMissingRequired(columns) ==
    LET absent == SelectSeq(required_cols, LAMBDA c : c \notin columns)
    IN IF absent = <<>> THEN <<>> ELSE <<Head(absent)>>

\* col_map has the canonical name: one of its candidates is a column
Mapped(columns, canonical) ==
    \E i \in 1..Len(metric_candidates[canonical]) :
        metric_candidates[canonical][i] \in columns

\* missing_metrics
missing_metrics(columns) ==
    SelectSeq(Canonical, LAMBDA m : ~Mapped(columns, m))

\* lower-casing of the letters that matter to the marker
Lower(ch) ==
    IF ch = "A" THEN "a" ELSE IF ch = "W" THEN "w" ELSE IF ch = "R" THEN "r"
    ELSE ch

\* a search for the marker as it is written, in capitals
ContainsAWRExact(name) ==
    \E i \in 1..(Len(name) - 2) :
        name[i] = "A" /\ name[i + 1] = "W" /\ name[i + 2] = "R"

\* str.contains("AWR", case=False, na=False)
ContainsAWR(name) ==
    \E i \in 1..(Len(name) - 2) :
        /\ Lower(name[i]) = "a"
        /\ Lower(name[i + 1]) = "w"
        /\ Lower(name[i + 2]) = "r"

campaign_type(name) == IF ContainsAWR(name) THEN "Awareness" ELSE "Conversion"

\* the column df["campaign_type"]
CampaignTypes(rows) ==
    [k \in 1..Len(rows) |-> campaign_type(rows[k].campaign_name)]

\* the group of a row: (date, campaign_type, country_code)
GroupOf(r) == <<r.date, campaign_type(r.campaign_name), r.country>>

\* groupby drops the rows that have a NaN group key
HasGroup(r) == r.date # NoValue /\ r.country # NaN

\* a sum in which one NaN makes the result NaN
RECURSIVE SumNaN(_, _, _)
SumNaN(rows, g, m) ==
    IF rows = <<>> THEN 0
    ELSE LET r == Head(rows)
             rest == SumNaN(Tail(rows), g, m)
         IN IF HasGroup(r) /\ GroupOf(r) = g
            THEN IF r.cells[m] = NoValue \/ rest = NoValue THEN NoValue
                 ELSE r.cells[m] + rest
            ELSE rest

\* the "sum" of a metric over the rows of a group: NaN cells are skipped
RECURSIVE GroupSum(_, _, _)
GroupSum(rows, g, m) ==
    IF rows = <<>> THEN 0
    ELSE LET r == Head(rows)
             rest == GroupSum(Tail(rows), g, m)
         IN IF HasGroup(r) /\ GroupOf(r) = g /\ r.cells[m] # NoValue
            THEN r.cells[m] + rest
            ELSE rest

\* the order of the strings that occur as group keys
StringOrder == <<"Awareness", "CA", "Conversion", "US">>
Rank(s) == CHOOSE i \in 1..Len(StringOrder) : StringOrder[i] = s

\* sort_values(by = [date, country_code, campaign_type]) on group keys
GroupLess(g, h) ==
    \/ g[1] < h[1]
    \/ g[1] = h[1] /\ Rank(g[3]) < Rank(h[3])
    \/ g[1] = h[1] /\ g[3] = h[3] /\ Rank(g[2]) < Rank(h[2])

RECURSIVE SortedGroups(_)
SortedGroups(gs) ==
    IF gs = {} THEN <<>>
    ELSE LET g == CHOOSE x \in gs : \A y \in gs \ {x} : GroupLess(x, y)
         IN <<g>> \o SortedGroups(gs \ {g})

\* one output row of the groupby
AggRow(rows, g) ==
    [date |-> g[1], campaign_type |-> g[2], country_code |-> g[3],
     impression |-> GroupSum(rows, g, "impressions"),
     clicks |-> GroupSum(rows, g, "clicks"),
     spend |-> GroupSum(rows, g, "spend"),
     purchase |-> GroupSum(rows, g, "checkouts"),
     revenue |-> GroupSum(rows, g, "checkout_value")]

\* df.groupby(group_cols, as_index=False).agg(...).sort_values(...)
Aggregated(rows) ==
    LET gs == {GroupOf(rows[i]) : i \in {j \in 1..Len(rows) : HasGroup(rows[j])}}
        order == SortedGroups(gs)
    IN [i \in 1..Len(order) |-> AggRow(rows, order[i])]

\* build_daily_paid_metrics_by_country(df_historical)
Build(df) ==
    IF FirstMissingRequired(df.columns) # <<>>
    THEN [outcome |-> "ValueError", names |-> FirstMissingRequired(df.columns),
          campaign_types |-> <<>>, agg_df |-> <<>>]
    ELSE IF missing_metrics(df.columns) # <<>>
    THEN [outcome |-> "ValueError", names |-> missing_metrics(df.columns),
          campaign_types |-> <<>>, agg_df |-> <<>>]
    ELSE [outcome |-> "returned", names |-> <<>>,
          campaign_types |-> CampaignTypes(df.rows),
          agg_df |-> Aggregated(df.rows)]

\* the tables drawn as df_historical
AllColumns ==
    {"date", "country", "campaign_id", "campaign_name", "impressions",
     "clicks", "spend", "checkouts", "checkout_value"}

ColumnSets ==
    {AllColumns,
     (AllColumns \ {"impressions", "clicks"}) \cup {"IMPRESSION_1", "CLICKTHROUGH_1"},
     AllColumns \ {"date", "campaign_name", "spend"},
     AllColumns \ {"clicks", "checkouts"}}

\* every metric cell of a row holds v
Cells(v) == [m \in {Canonical[i] : i \in 1..Len(Canonical)} |-> v]

AggRowOf(d, c, n, cells) ==
    [date |-> d, country |-> c, campaign_name |-> n, cells |-> cells]

\* rows with all their cells
CompleteRows ==
    {AggRowOf(d, c, n, Cells(1)) :
        d \in {1, 2}, c \in {"US", "CA"},
        n \in {<<"A", "W", "R", "1">>, <<"S", "a", "l", "e">>}}

\* rows that lack cells: a metric value, a group key, the campaign name
SparseRows ==
    {AggRowOf(d, c, n, cells) :
        d \in {1, NoValue}, c \in {"US", NaN},
        n \in {<<"x", "a", "w", "R">>, NoName},
        cells \in {[Cells(2) EXCEPT !["clicks"] = NoValue], Cells(NoValue)}}

AggInputs ==
    [columns : ColumnSets, rows : SeqsUpTo(CompleteRows \cup SparseRows, MaxAggRows)]

NoTable == [columns |-> {}, rows |-> <<>>]

\* ------------------------------------------------------------ the scripts
\* what get_targeting_analytics_by_country delivers for a window that has
\* data: a row of entity 1 dated at the window's start, with this run's value
WindowRows(w) == <<Row(w[1], 1, 2)>>

\* what get_multiple_pins_analytics delivers for a chunk of pin ids
PinRows(chunk) == <<Row(1, chunk[1], 2)>>

\* what get_user_account_analytics delivers: one row a day, no other key
AccountRows == <<Row(1, 1, 2), Row(2, 1, 2)>>

\* the pins get_top_pins_analytics delivers: pin ids, no date
TopPinRows(n) == [k \in 1..n |-> Row(NoValue, k, 2)]

\* for i in range(0, len(pin_ids), 100): chunk = pin_ids[i:i+100]
PinChunks(n) == [k \in 1..n |-> <<k>>]

SnapshotFiles ==
    {"pinterest_ytd_country_data.csv", "pinterest_organic_account_daily.csv",
     "pinterest_organic_top_pins.csv", "pinterest_organic_top_pins_daily.csv",
     "pinterest_organic_top_videos.csv"}

NoSnapshots == [f \in SnapshotFiles |-> <<>>]

\* a historical file that does not exist
NoStore == [exists |-> FALSE, readable |-> FALSE, rows |-> <<>>]

\* a caller that goes on whatever the call did
AnyOutcome(o) == TRUE

\* the call raised nothing
Succeeded(o) == o \in {"created", "updated"}

\* the ways a call of upload_df_to_google_sheet ends
UploadResults == {"not configured", "clear raised", "update raised", "uploaded"}

\* the cells of the tab after the call
Upload(cells, shape, result) ==
    IF result \in {"not configured", "clear raised"} THEN AsPrior(cells)
    ELSE IF result = "update raised" THEN Cleared(AsPrior(cells))
    ELSE Updated(Cleared(AsPrior(cells)), shape)

\* the API calls it executed
CallsOf(result) ==
    IF result \in {"not configured", "clear raised"} THEN <<>>
    ELSE IF result = "update raised" THEN <<"clear">>
    ELSE <<"clear", "update">>

\* the historical table and the daily table as they are uploaded: a header
\* row and one row for each row of the table
HistoricalShape(table) == [w |-> 3, h |-> Len(table) + 1]
DailyShape(table) == [w |-> 8, h |-> Len(table) + 1]

\* a handler that puts back the content the store had before the run
RolledBack(store, before) == before

\* the except clauses of the script print the error and touch no file
StoreAfterError(store, before) == store

\* df_historical as build_daily_paid_metrics_by_country sees it: entity 1 is
\* (US, a campaign named AWR1), entity 2 is (CA, the same campaign)
AsAggRows(table) ==
    [k \in 1..Len(table) |->
        AggRowOf(table[k].date, IF table[k].id = 1 THEN "US" ELSE "CA",
                 <<"A", "W", "R", "1">>, Cells(table[k].val))]

\* the column sets a df_historical can have that append_to_historical_data
\* has returned and in which __main__ found 'country'
HistoricalColumnSets == {c \in ColumnSets : {"date", "country"} \subseteq c}

\* ------------------------------------------------------------ normalizers
\* A JSON object is a function from its keys to their values; a metrics
\* object maps metric names to numbers.
EmptyDict == [n \in {} |-> 0]

\* str.lower() on the metric names that occur
LowerCase ==
    [IMPRESSION |-> "impression", SAVE |-> "save", DATE |-> "date",
     SPEND |-> "spend"]
lower(metric_name) == LowerCase[metric_name]

\* daily.get("metrics", {})
DailyMetrics(daily) == IF daily.has_metrics THEN daily.metrics ELSE EmptyDict

\* get_multiple_pins_analytics: the record of one block of daily_metrics;
\* record[metric_name.lower()] = metric_value for each metric
DailyRecord(pin_id, daily) ==
    LET metrics == DailyMetrics(daily)
        columns == {"pin_id", "date", "data_status"}
                       \cup {lower(n) : n \in DOMAIN metrics}
    IN [c \in columns |->
           IF \E n \in DOMAIN metrics : lower(n) = c
           THEN metrics[CHOOSE n \in DOMAIN metrics : lower(n) = c]
           ELSE IF c = "pin_id" THEN pin_id
           ELSE IF c = "date" THEN daily.date
           ELSE daily.data_status]

\* get_multiple_pins_analytics: all_records for the list of pins
RECURSIVE PinRecords(_)
PinRecords(pins_data) ==
    IF pins_data = <<>> THEN <<>>
    ELSE LET pin_data == Head(pins_data)
         IN [k \in 1..Len(pin_data.daily_metrics) |->
                DailyRecord(pin_data.pin_id, pin_data.daily_metrics[k])]
            \o PinRecords(Tail(pins_data))

\* get_targeting_analytics_by_country: record.get('metrics', {}), parsed
\* with json.loads when it is a string, {} when that fails
RecordMetrics(record) ==
    IF record.metrics_kind = "absent" THEN EmptyDict
    ELSE IF record.metrics_kind = "bad str" THEN EmptyDict
    ELSE record.metrics

\* get_targeting_analytics_by_country: flat_record =
\* {'targeting_type': ..., 'country': ..., **metrics}
FlatRecord(record) ==
    LET metrics == RecordMetrics(record)
        columns == {"targeting_type", "country"} \cup DOMAIN metrics
    IN [c \in columns |->
           IF c \in DOMAIN metrics THEN metrics[c]
           ELSE IF c = "targeting_type" THEN record.targeting_type
           ELSE IF record.has_value THEN record.targeting_value
           ELSE ""]

\* get_targeting_analytics_by_country: flattened_records
FlatRecords(data) == [k \in 1..Len(data) |-> FlatRecord(data[k])]

SeqsFromZero(S, n) == UNION {[1..k -> S] : k \in 0..n}

\* the blocks of daily_metrics of the pins endpoint
DailyBlocks ==
    {[date |-> 1, data_status |-> "READY", has_metrics |-> FALSE,
      metrics |-> EmptyDict],
     [date |-> 1, data_status |-> "READY", has_metrics |-> TRUE,
      metrics |-> EmptyDict],
     [date |-> 2, data_status |-> "READY", has_metrics |-> TRUE,
      metrics |-> [SAVE |-> 0]],
     [date |-> NoValue, data_status |-> "READY", has_metrics |-> TRUE,
      metrics |-> [IMPRESSION |-> 2, SAVE |-> 1]]}

\* the responses of the pins endpoint: up to two pins
PinResponses ==
    LET pin(i) == [pin_id : {i},
                   daily_metrics : SeqsFromZero(DailyBlocks, MaxBlocks)]
    IN {<<>>} \cup {<<p>> : p \in pin(1)}
           \cup {<<p, q>> : p \in pin(1), q \in pin(2)}

\* the records of data of the targeting analytics endpoint
TargetingBlocks ==
    [targeting_type : {"COUNTRY"}, has_value : {TRUE}, targeting_value : {"US"},
     metrics_kind : {"absent", "bad str"}, metrics : {EmptyDict}]
    \cup [targeting_type : {"COUNTRY"}, has_value : BOOLEAN,
          targeting_value : {"US"}, metrics_kind : {"dict", "str"},
          metrics : {EmptyDict, [DATE |-> 1, SPEND |-> 0]}]

TargetingResponses == SeqsFromZero(TargetingBlocks, MaxBlocks)

\* the parsing code of a normalizer on a response
Normalized(f, data) ==
    IF f = "get_multiple_pins_analytics" THEN PinRecords(data)
    ELSE FlatRecords(data)

\* ------------------------------------------------------------ actions
ReconcileIdle ==
    /\ pc = "idle" /\ new_df = <<>> /\ prevExists = FALSE /\ prevReadable = FALSE
    /\ prevRows = <<>> /\ outcome = "none" /\ returned = <<>>
    /\ io_log = <<>>

PlanIdle ==
    /\ plan_pc = "call" /\ plan_start = 0 /\ plan_end = 0 /\ plan_max = 1
    /\ ranges = <<>>

TokenIdle ==
    /\ tok_pc = "idle" /\ tokens = NoTokens /\ access_token = NoValue

\* before the OAuth flow has been run: no TOKEN_FILE
NoTokenFile ==
    /\ tokenFileExists = FALSE /\ TOKEN_FILE = NoTokens /\ now = 1 /\ TokenIdle

SheetIdle ==
    /\ sheet_pc = "idle" /\ sheet_tab = "" /\ values = NoShape
    /\ api_calls = <<>>

\* a spreadsheet whose tabs are empty
EmptySheet == sheet = [tab \in Tabs |-> {}] /\ SheetIdle

AggIdle ==
    /\ agg_pc = "call" /\ df_historical = NoTable /\ agg_error = <<>>
    /\ agg_df = <<>>
    /\ campaign_types = <<>>

NormIdle ==
    /\ norm_pc = "call" /\ normalizer = "" /\ response = <<>>
    /\ records = <<>>

\* a call of append_to_historical_data(new, historical_file, key_columns)
\* on the historical file
Reconcile(new) ==
    /\ pc = "idle"
    /\ \E c \in {Call(fileExists, fileReadable, fileRows, new)} :
          /\ fileExists' = c.exists
          /\ fileReadable' = c.readable
          /\ fileRows' = c.rows
          /\ outcome' = c.outcome
          /\ returned' = c.returned
          /\ io_log' = c.io
    /\ new_df' = new
    /\ prevExists' = fileExists
    /\ prevReadable' = fileReadable
    /\ prevRows' = fileRows
    /\ pc' = "done"

\* append_to_historical_data(new, historical_file, key_columns), called on
\* its own
append_to_historical_data(new) ==
    /\ Reconcile(new)
    /\ UNCHANGED <<planVars, tokenVars, sheetVars, aggVars, runVars, normVars>>

\* the script ends; the next run starts with the file as this one left it
NextRun ==
    /\ pc = "done"
    /\ pc' = "idle"
    /\ new_df' = <<>> /\ prevExists' = FALSE /\ prevReadable' = FALSE
    /\ prevRows' = <<>> /\ outcome' = "none" /\ returned' = <<>>
    /\ io_log' = <<>>
    /\ UNCHANGED <<fileExists, fileReadable, fileRows>>
    /\ UNCHANGED <<planVars, tokenVars, sheetVars, aggVars, runVars, normVars>>

\* between two runs the file becomes one that pd.read_csv cannot load; what
\* it held is no longer a table
Damage ==
    /\ pc = "idle" /\ fileExists /\ fileReadable
    /\ fileReadable' = FALSE
    /\ fileRows' = <<>>
    /\ UNCHANGED <<fileExists, pc, new_df, prevExists, prevReadable, prevRows,
                   outcome, returned, io_log>>
    /\ UNCHANGED <<planVars, tokenVars, sheetVars, aggVars, runVars, normVars>>

\* the planner is called on the inputs drawn in InitPlan
Plan ==
    /\ plan_pc = "call"
    /\ ranges' = get_date_ranges(plan_start, plan_end, plan_max)
    /\ plan_pc' = "returned"
    /\ UNCHANGED <<plan_start, plan_end, plan_max>>
    /\ UNCHANGED <<reconcileVars, tokenVars, sheetVars, aggVars,
                   runVars, normVars>>

\* /callback of the OAuth flow: the authorization code is exchanged and the
\* response, which carries a refresh token, is saved
callback ==
    /\ tok_pc = "idle"
    /\ \E token_data \in TokenResponses(now, {TRUE}) :
          TOKEN_FILE' = save_tokens(token_data, now)
    /\ tokenFileExists' = TRUE
    /\ UNCHANGED <<now, tok_pc, tokens, access_token>>
    /\ UNCHANGED <<reconcileVars, planVars, sheetVars, aggVars,
                   runVars, normVars>>

\* time passes between two calls
Tick ==
    /\ tok_pc = "idle" /\ now < MaxTime
    /\ now' = now + 1
    /\ UNCHANGED <<tokenFileExists, TOKEN_FILE, tok_pc, tokens, access_token>>
    /\ UNCHANGED <<reconcileVars, planVars, sheetVars, aggVars,
                   runVars, normVars>>

\* get_pinterest_token()
get_pinterest_token ==
    /\ tok_pc = "idle"
    /\ \E resp \in TokenResponses(now, BOOLEAN) \cup {HTTPErrorResponse} :
          \E g \in {GetToken(tokenFileExists, TOKEN_FILE, now, resp)} :
              /\ TOKEN_FILE' = g.file
              /\ access_token' = g.access_token
              /\ tok_pc' = IF g.outcome = "returned" THEN "returned" ELSE "raised"
    /\ tokens' = TOKEN_FILE
    /\ UNCHANGED <<tokenFileExists, now>>
    /\ UNCHANGED <<reconcileVars, planVars, sheetVars, aggVars,
                   runVars, normVars>>

\* the caller goes on; a later call starts afresh
TokenDone ==
    /\ tok_pc # "idle"
    /\ tok_pc' = "idle" /\ tokens' = NoTokens /\ access_token' = NoValue
    /\ UNCHANGED <<tokenFileExists, TOKEN_FILE, now>>
    /\ UNCHANGED <<reconcileVars, planVars, sheetVars, aggVars,
                   runVars, normVars>>

\* upload_df_to_google_sheet(df, sheet_id, sheet_tab), up to the building
\* of values; it raises when the service account is not configured
UploadBegin(tab, shape) ==
    /\ sheet_pc = "idle"
    /\ sheet_tab' = tab
    /\ values' = shape
    /\ api_calls' = <<>>
    /\ \E configured \in BOOLEAN :
          sheet_pc' = IF configured THEN "clear" ELSE "raised"
    /\ sheet' = [sheet EXCEPT ![tab] = AsPrior(@)]

\* sheet.values().clear(...).execute(), which may raise
UploadClear ==
    /\ sheet_pc = "clear"
    /\ \/ /\ sheet' = [sheet EXCEPT ![sheet_tab] = Cleared(@)]
          /\ api_calls' = Append(api_calls, "clear")
          /\ sheet_pc' = "update"
       \/ /\ sheet_pc' = "raised"
          /\ UNCHANGED <<sheet, api_calls>>
    /\ UNCHANGED <<sheet_tab, values>>

\* sheet.values().update(...).execute(), which may raise
UploadUpdate ==
    /\ sheet_pc = "update"
    /\ \/ /\ sheet' = [sheet EXCEPT ![sheet_tab] = Updated(@, values)]
          /\ api_calls' = Append(api_calls, "update")
          /\ sheet_pc' = "uploaded"
       \/ /\ sheet_pc' = "raised"
          /\ UNCHANGED <<sheet, api_calls>>
    /\ UNCHANGED <<sheet_tab, values>>

\* the call has ended
UploadEnd ==
    /\ sheet_pc \in {"uploaded", "raised"}
    /\ sheet_pc' = "idle" /\ sheet_tab' = "" /\ values' = NoShape
    /\ api_calls' = <<>>
    /\ UNCHANGED sheet

\* build_daily_paid_metrics_by_country is called on the table drawn in InitAgg
Aggregate ==
    /\ agg_pc = "call"
    /\ \E b \in {Build(df_historical)} :
          /\ agg_pc' = IF b.outcome = "returned" THEN "returned" ELSE "raised"
          /\ agg_error' = b.names
          /\ agg_df' = b.agg_df
          /\ campaign_types' = b.campaign_types
    /\ UNCHANGED df_historical
    /\ UNCHANGED <<reconcileVars, planVars, tokenVars, sheetVars,
                   runVars, normVars>>

RunIdle ==
    /\ script = "paid" /\ run_pc = "import" /\ ACCESS_TOKEN = NoValue
    /\ google_sheet_id = FALSE /\ chunks = <<>> /\ fetched = <<>>
    /\ all_data = <<>> /\ requests = 0 /\ paused = FALSE
    /\ accountFile = NoStore /\ snapshots = NoSnapshots /\ caught = ""

\* ACCESS_TOKEN = get_pinterest_token(), at import: an exception raised here
\* is caught by nothing and ends the script
Import ==
    /\ run_pc = "import"
    /\ \E resp \in TokenResponses(now, BOOLEAN) \cup {HTTPErrorResponse} :
          \E g \in {GetToken(tokenFileExists, TOKEN_FILE, now, resp)} :
              /\ TOKEN_FILE' = g.file
              /\ access_token' = g.access_token
              /\ tok_pc' = IF g.outcome = "returned" THEN "returned" ELSE "raised"
              /\ ACCESS_TOKEN' = g.access_token
              /\ run_pc' = IF g.outcome # "returned" THEN "crashed"
                           ELSE IF script = "paid" THEN "campaigns"
                           ELSE "account"
    /\ tokens' = TOKEN_FILE
    /\ UNCHANGED <<tokenFileExists, now>>
    /\ UNCHANGED <<script, google_sheet_id, chunks, fetched, all_data,
                   requests, paused, accountFile, snapshots, caught>>
    /\ UNCHANGED <<reconcileVars, planVars, sheetVars, aggVars, normVars>>

\* paid: get_campaigns_list(), then get_date_ranges(actual_start, YTD_END, 89)
Campaigns ==
    /\ run_pc = "campaigns"
    /\ requests' = requests + 1
    /\ paused' = FALSE
    /\ \/ /\ run_pc' = "failed"
          /\ caught' = "campaigns"
          /\ UNCHANGED <<chunks, planVars>>
       \/ /\ ranges' = get_date_ranges(plan_start, plan_end, plan_max)
          /\ plan_pc' = "returned"
          /\ chunks' = ranges'
          /\ run_pc' = "loop"
          /\ UNCHANGED <<caught, plan_start, plan_end, plan_max>>
    /\ UNCHANGED <<script, ACCESS_TOKEN, google_sheet_id, fetched, all_data,
                   accountFile, snapshots>>
    /\ UNCHANGED <<reconcileVars, tokenVars, sheetVars, aggVars, normVars>>

\* paid: one turn of the loop over date_ranges_country; the pause is the
\* last statement of the try block
FetchWindow ==
    /\ script = "paid" /\ run_pc = "loop" /\ Len(fetched) < Len(chunks)
    /\ requests' = requests + 1
    /\ \E result \in {"rows", "empty", "HTTPError"} :
          /\ fetched' = Append(fetched, result)
          /\ all_data' = IF result = "rows"
                         THEN all_data \o WindowRows(chunks[Len(fetched) + 1])
                         ELSE all_data
          /\ paused' = (result # "HTTPError")
    /\ UNCHANGED <<script, run_pc, ACCESS_TOKEN, google_sheet_id, chunks,
                   accountFile, snapshots, caught>>
    /\ UNCHANGED <<reconcileVars, planVars, tokenVars, sheetVars,
                   aggVars, normVars>>

\* paid: after the loop, the concatenation, the CSV of the run and
\* append_to_historical_data(df_country)
PaidReconcile ==
    /\ script = "paid" /\ run_pc = "loop" /\ Len(fetched) = Len(chunks)
    /\ IF all_data = <<>>
       THEN /\ run_pc' = "finished"
            /\ UNCHANGED <<snapshots, caught, reconcileVars>>
       ELSE /\ snapshots' =
                [snapshots EXCEPT !["pinterest_ytd_country_data.csv"] = all_data]
            /\ Reconcile(all_data)
            /\ run_pc' = IF ~Succeeded(outcome') THEN "failed"
                         ELSE IF google_sheet_id THEN "upload"
                         ELSE "finished"
            /\ caught' = IF Succeeded(outcome') THEN caught ELSE "reconcile"
    /\ UNCHANGED <<script, ACCESS_TOKEN, google_sheet_id, chunks, fetched,
                   all_data, requests, paused, accountFile>>
    /\ UNCHANGED <<planVars, tokenVars, sheetVars, aggVars, normVars>>

\* paid: upload_df_to_google_sheet(df_historical, google_sheet_id,
\* google_sheet_tab)
UploadHistorical ==
    /\ run_pc = "upload"
    /\ \E result \in UploadResults :
          /\ sheet' = [sheet EXCEPT !["Paid Metrics By Country"] =
                          Upload(@, HistoricalShape(returned), result)]
          /\ api_calls' = CallsOf(result)
          /\ sheet_pc' = IF result = "uploaded" THEN "uploaded" ELSE "raised"
          /\ run_pc' = IF result = "uploaded" THEN "aggregate" ELSE "failed"
          /\ caught' = IF result = "uploaded" THEN caught ELSE "upload"
          /\ fileRows' = IF result = "uploaded" THEN fileRows
                         ELSE StoreAfterError(fileRows, prevRows)
    /\ sheet_tab' = "Paid Metrics By Country"
    /\ values' = HistoricalShape(returned)
    /\ UNCHANGED <<fileExists, fileReadable, pc, new_df, prevExists,
                   prevReadable, prevRows, outcome, returned, io_log>>
    /\ UNCHANGED <<script, ACCESS_TOKEN, google_sheet_id, chunks, fetched,
                   all_data, requests, paused, accountFile, snapshots>>
    /\ UNCHANGED <<planVars, tokenVars, aggVars, normVars>>

\* paid: build_daily_paid_metrics_by_country(df_historical)
BuildDaily ==
    /\ run_pc = "aggregate"
    /\ \E columns \in HistoricalColumnSets :
          \E df \in {[columns |-> columns, rows |-> AsAggRows(returned)]} :
              \E b \in {Build(df)} :
                  /\ df_historical' = df
                  /\ agg_pc' = IF b.outcome = "returned" THEN "returned"
                               ELSE "raised"
                  /\ agg_error' = b.names
                  /\ agg_df' = b.agg_df
                  /\ campaign_types' = b.campaign_types
                  /\ run_pc' = IF b.outcome = "returned" THEN "upload_daily"
                               ELSE "failed"
                  /\ caught' = IF b.outcome = "returned" THEN caught
                               ELSE "aggregate"
    /\ UNCHANGED <<script, ACCESS_TOKEN, google_sheet_id, chunks, fetched,
                   all_data, requests, paused, accountFile, snapshots>>
    /\ UNCHANGED <<reconcileVars, planVars, tokenVars, sheetVars, normVars>>

\* paid: upload_df_to_google_sheet(df_daily, google_sheet_id, daily_tab_name)
UploadDaily ==
    /\ run_pc = "upload_daily"
    /\ \E result \in UploadResults :
          /\ sheet' = [sheet EXCEPT !["Daily Paid Metrics By Country"] =
                          Upload(@, DailyShape(agg_df), result)]
          /\ api_calls' = CallsOf(result)
          /\ sheet_pc' = IF result = "uploaded" THEN "uploaded" ELSE "raised"
          /\ run_pc' = IF result = "uploaded" THEN "finished" ELSE "failed"
          /\ caught' = IF result = "uploaded" THEN caught ELSE "upload_daily"
          /\ fileRows' = IF result = "uploaded" THEN fileRows
                         ELSE StoreAfterError(fileRows, prevRows)
    /\ sheet_tab' = "Daily Paid Metrics By Country"
    /\ values' = DailyShape(agg_df)
    /\ UNCHANGED <<fileExists, fileReadable, pc, new_df, prevExists,
                   prevReadable, prevRows, outcome, returned, io_log>>
    /\ UNCHANGED <<script, ACCESS_TOKEN, google_sheet_id, chunks, fetched,
                   all_data, requests, paused, accountFile, snapshots>>
    /\ UNCHANGED <<planVars, tokenVars, aggVars, normVars>>

\* organic, section 1: get_user_account_analytics, the CSV of the run,
\* append_to_historical_data on the account file, time.sleep(1)
Account ==
    /\ run_pc = "account"
    /\ requests' = requests + 1
    /\ \/ /\ run_pc' = "failed" /\ caught' = "account" /\ paused' = FALSE
          /\ UNCHANGED <<accountFile, snapshots>>
       \/ /\ run_pc' = "top_pins" /\ paused' = TRUE
          /\ UNCHANGED <<accountFile, snapshots, caught>>
       \/ /\ snapshots' =
                [snapshots EXCEPT !["pinterest_organic_account_daily.csv"] =
                    AccountRows]
          /\ \E c \in {Call(accountFile.exists, accountFile.readable,
                            accountFile.rows, AccountRows)} :
                /\ accountFile' = [exists |-> c.exists, readable |-> c.readable,
                                   rows |-> c.rows]
                /\ run_pc' = IF Succeeded(c.outcome) THEN "top_pins" ELSE "failed"
                /\ caught' = IF Succeeded(c.outcome) THEN caught ELSE "reconcile"
                /\ paused' = Succeeded(c.outcome)
    /\ UNCHANGED <<script, ACCESS_TOKEN, google_sheet_id, chunks, fetched,
                   all_data>>
    /\ UNCHANGED <<reconcileVars, planVars, tokenVars, sheetVars,
                   aggVars, normVars>>

\* organic, section 2: get_top_pins_analytics, the CSV of the run, pin_ids;
\* without pins, the pause that ends the section
TopPins ==
    /\ run_pc = "top_pins"
    /\ requests' = requests + 1
    /\ \/ /\ run_pc' = "failed" /\ caught' = "top_pins" /\ paused' = FALSE
          /\ UNCHANGED <<chunks, snapshots>>
       \/ /\ run_pc' = "top_videos" /\ paused' = TRUE
          /\ UNCHANGED <<chunks, snapshots, caught>>
       \/ \E n \in 1..MaxBatches :
             /\ snapshots' =
                   [snapshots EXCEPT !["pinterest_organic_top_pins.csv"] =
                       TopPinRows(n)]
             /\ chunks' = PinChunks(n)
             /\ run_pc' = "loop" /\ paused' = FALSE
             /\ UNCHANGED caught
    /\ UNCHANGED <<script, ACCESS_TOKEN, google_sheet_id, fetched, all_data,
                   accountFile>>
    /\ UNCHANGED <<reconcileVars, planVars, tokenVars, sheetVars,
                   aggVars, normVars>>

\* organic: one turn of the loop over the chunks of pin_ids; there is no try
\* in the loop, an HTTPError leaves it for the outer except
FetchBatch ==
    /\ script = "organic" /\ run_pc = "loop" /\ Len(fetched) < Len(chunks)
    /\ requests' = requests + 1
    /\ \E result \in {"rows", "empty", "HTTPError"} :
          /\ fetched' = Append(fetched, result)
          /\ all_data' = IF result = "rows"
                         THEN all_data \o PinRows(chunks[Len(fetched) + 1])
                         ELSE all_data
          /\ paused' = (result # "HTTPError")
          /\ run_pc' = IF result = "HTTPError" THEN "failed" ELSE run_pc
          /\ caught' = IF result = "HTTPError" THEN "loop" ELSE caught
    /\ UNCHANGED <<script, ACCESS_TOKEN, google_sheet_id, chunks, accountFile,
                   snapshots>>
    /\ UNCHANGED <<reconcileVars, planVars, tokenVars, sheetVars,
                   aggVars, normVars>>

\* organic: after the loop, the concatenation, the CSV of the run,
\* append_to_historical_data on the pins file, and the pause that ends the
\* section
OrganicReconcile ==
    /\ script = "organic" /\ run_pc = "loop" /\ Len(fetched) = Len(chunks)
    /\ IF all_data = <<>>
       THEN /\ run_pc' = "top_videos" /\ paused' = TRUE
            /\ UNCHANGED <<snapshots, caught, reconcileVars>>
       ELSE /\ snapshots' =
                [snapshots EXCEPT !["pinterest_organic_top_pins_daily.csv"] =
                    all_data]
            /\ Reconcile(all_data)
            /\ run_pc' = IF Succeeded(outcome') THEN "top_videos" ELSE "failed"
            /\ caught' = IF Succeeded(outcome') THEN caught ELSE "reconcile"
            /\ paused' = TRUE
    /\ UNCHANGED <<script, ACCESS_TOKEN, google_sheet_id, chunks, fetched,
                   all_data, requests, accountFile>>
    /\ UNCHANGED <<planVars, tokenVars, sheetVars, aggVars, normVars>>

\* organic, section 3: get_top_video_pins_analytics and the CSV of the run
TopVideos ==
    /\ run_pc = "top_videos"
    /\ requests' = requests + 1
    /\ paused' = FALSE
    /\ \/ /\ run_pc' = "failed" /\ caught' = "top_videos"
          /\ UNCHANGED snapshots
       \/ /\ run_pc' = "finished"
          /\ UNCHANGED <<snapshots, caught>>
       \/ /\ snapshots' =
                [snapshots EXCEPT !["pinterest_organic_top_videos.csv"] =
                    TopPinRows(1)]
          /\ run_pc' = "finished"
          /\ UNCHANGED caught
    /\ UNCHANGED <<script, ACCESS_TOKEN, google_sheet_id, chunks, fetched,
                   all_data, accountFile>>
    /\ UNCHANGED <<reconcileVars, planVars, tokenVars, sheetVars,
                   aggVars, normVars>>

\* the parsing code of the normalizer runs on the response drawn in InitNorm
Normalize ==
    /\ norm_pc = "call"
    /\ records' = Normalized(normalizer, response)
    /\ norm_pc' = "returned"
    /\ UNCHANGED <<normalizer, response>>
    /\ UNCHANGED <<reconcileVars, planVars, tokenVars, sheetVars, aggVars,
                   runVars>>

\* ------------------------------------------------------------ specifications
NoFile == fileExists = FALSE /\ fileReadable = FALSE /\ fileRows = <<>>

Init ==
    /\ NoFile /\ ReconcileIdle /\ PlanIdle /\ NoTokenFile /\ EmptySheet
    /\ AggIdle /\ RunIdle /\ NormIdle

Next ==
    \/ \E new \in FullInputs : append_to_historical_data(new)
    \/ NextRun
    \/ Damage

Spec == Init /\ [][Next]_vars

\* the same, the API's responses may lack key cells
NextPartial ==
    \/ \E new \in PartialInputs : append_to_historical_data(new)
    \/ NextRun
    \/ Damage

SpecPartial == Init /\ [][NextPartial]_vars

InitPlan ==
    /\ NoFile /\ ReconcileIdle /\ NoTokenFile /\ EmptySheet /\ AggIdle
    /\ RunIdle /\ NormIdle
    /\ plan_pc = "call"
    /\ plan_start \in 0..MaxDay
    /\ plan_end \in 0..MaxDay
    /\ plan_max \in 1..MaxSpan
    /\ ranges = <<>>

NextPlan == Plan

SpecPlan == InitPlan /\ [][NextPlan]_vars

\* the credential provider, from before the first login
InitToken ==
    /\ NoFile /\ ReconcileIdle /\ PlanIdle /\ NoTokenFile /\ EmptySheet
    /\ AggIdle /\ RunIdle /\ NormIdle

NextToken ==
    \/ callback
    \/ Tick
    \/ get_pinterest_token
    \/ TokenDone

SpecToken == InitToken /\ [][NextToken]_vars

\* uploads to one tab, one after the other
InitSheet ==
    /\ NoFile /\ ReconcileIdle /\ PlanIdle /\ NoTokenFile /\ EmptySheet
    /\ AggIdle /\ RunIdle /\ NormIdle

NextSheet ==
    \/ /\ \E shape \in Shapes : UploadBegin("Paid Metrics By Country", shape)
       /\ UNCHANGED <<reconcileVars, planVars, tokenVars, aggVars,
                      runVars, normVars>>
    \/ UploadClear
          /\ UNCHANGED <<reconcileVars, planVars, tokenVars, aggVars,
                         runVars, normVars>>
    \/ UploadUpdate
          /\ UNCHANGED <<reconcileVars, planVars, tokenVars, aggVars,
                         runVars, normVars>>
    \/ UploadEnd
          /\ UNCHANGED <<reconcileVars, planVars, tokenVars, aggVars,
                         runVars, normVars>>

SpecSheet == InitSheet /\ [][NextSheet]_vars

\* the aggregation of a table
InitAgg ==
    /\ NoFile /\ ReconcileIdle /\ PlanIdle /\ NoTokenFile /\ EmptySheet
    /\ RunIdle /\ NormIdle
    /\ agg_pc = "call"
    /\ df_historical \in AggInputs
    /\ agg_error = <<>>
    /\ agg_df = <<>>
    /\ campaign_types = <<>>

NextAgg == Aggregate

SpecAgg == InitAgg /\ [][NextAgg]_vars

\* one run of a script: the credential is missing, fresh or due for refresh;
\* the historical file is missing, holds an earlier run's row, or cannot be
\* loaded
InitRun ==
    /\ ReconcileIdle /\ EmptySheet /\ AggIdle
    /\ \/ NoFile
       \/ fileExists = TRUE /\ fileReadable = TRUE /\ fileRows = <<Row(1, 1, 1)>>
       \/ fileExists = TRUE /\ fileReadable = FALSE /\ fileRows = <<>>
    /\ TokenIdle
    /\ \/ tokenFileExists = FALSE /\ TOKEN_FILE = NoTokens /\ now = 1
       \/ /\ tokenFileExists = TRUE
          /\ TOKEN_FILE \in {save_tokens(r, 1) : r \in TokenResponses(1, {TRUE})}
          /\ now \in {1, ExpiresIn}
    /\ plan_pc = "call" /\ ranges = <<>>
    /\ plan_start = 1
    /\ plan_end \in 2..MaxDay
    /\ plan_max \in 1..MaxSpan
    /\ script \in {"paid", "organic"}
    /\ google_sheet_id \in BOOLEAN
    /\ script = "organic" => (~google_sheet_id /\ plan_end = 2 /\ plan_max = 1)
    /\ run_pc = "import" /\ ACCESS_TOKEN = NoValue
    /\ chunks = <<>> /\ fetched = <<>> /\ all_data = <<>>
    /\ requests = 0 /\ paused = FALSE
    /\ accountFile = NoStore /\ snapshots = NoSnapshots /\ caught = ""
    /\ NormIdle

NextRunStep ==
    \/ Import
    \/ Campaigns
    \/ FetchWindow
    \/ PaidReconcile
    \/ UploadHistorical
    \/ BuildDaily
    \/ UploadDaily
    \/ Account
    \/ TopPins
    \/ FetchBatch
    \/ OrganicReconcile
    \/ TopVideos

SpecRun == InitRun /\ [][NextRunStep]_vars

\* the parsing of a response
InitNorm ==
    /\ NoFile /\ ReconcileIdle /\ PlanIdle /\ NoTokenFile /\ EmptySheet
    /\ AggIdle /\ RunIdle
    /\ norm_pc = "call"
    /\ records = <<>>
    /\ \/ /\ normalizer = "get_multiple_pins_analytics"
          /\ response \in PinResponses
       \/ /\ normalizer = "get_targeting_analytics_by_country"
          /\ response \in TargetingResponses

NextNorm == Normalize

SpecNorm == InitNorm /\ [][NextNorm]_vars

\* ------------------------------------------------------------ properties
RowsOf(t) == {t[i] : i \in 1..Len(t)}
KeysOf(t) == {KeyOf(t[i]) : i \in 1..Len(t)}

\* a call on the merge path has ended: the file existed and was rewritten
Merged == pc = "done" /\ prevExists /\ outcome = "updated"
\* a call on the bootstrap path has ended
Bootstrapped == pc = "done" /\ ~prevExists /\ outcome = "created"

UniqueKeys(t) == \A i, j \in 1..Len(t) : KeyOf(t[i]) = KeyOf(t[j]) => i = j
Sorted(t) == \A i, j \in 1..Len(t) : i < j => ~KeyLess(t[j], t[i])
LacksKey(t) == \E i \in 1..Len(t) : t[i].date = NoValue \/ t[i].id = NoValue
\* the last row of t with key k
LastWith(t, k) ==
    t[CHOOSE i \in 1..Len(t) :
        /\ KeyOf(t[i]) = k
        /\ \A j \in 1..Len(t) : KeyOf(t[j]) = k => j <= i]

\* C1. No-loss: after a call on the merge path, every row of the table as it
\* was before the call whose date is strictly earlier than the earliest date
\* of new_df is a row of the returned and of the persisted table.
C1_NoLoss ==
    Merged =>
        \A r \in RowsOf(prevRows) :
            (r.date # NoValue /\ DateMin(new_df) # NoValue /\ r.date < DateMin(new_df))
                => r \in RowsOf(fileRows) /\ r \in RowsOf(returned)

\* C2. Supersession with one cutoff: after a call on the merge path, every
\* row of the previous table whose date is at or after the earliest date of
\* all of new_df and whose key does not occur in new_df is absent from the
\* returned and from the persisted table, whichever entity it belongs to.
C2_Supersession ==
    Merged =>
        \A r \in RowsOf(prevRows) :
            (r.date >= DateMin(new_df) /\ KeyOf(r) \notin KeysOf(new_df))
                => r \notin RowsOf(fileRows) /\ r \notin RowsOf(returned)

\* a row of another entity than any in new_df, dated after the cutoff, was
\* superseded
C2_Witness ==
    /\ Merged
    /\ \E r \in RowsOf(prevRows) :
          /\ r.date > DateMin(new_df)
          /\ \A i \in 1..Len(new_df) : new_df[i].id # r.id
          /\ r \notin RowsOf(fileRows)

\* C3. Uniqueness: whatever calls were made since there was no file, the
\* persisted table never holds two rows with the same key.
C3_Uniqueness == (fileExists /\ fileReadable) => UniqueKeys(fileRows)

\* C4. Ordering: whatever calls were made since there was no file, the
\* returned and persisted table is sorted ascending by key.
C4_Ordering ==
    /\ (fileExists /\ fileReadable) => Sorted(fileRows)
    /\ (pc = "done" /\ outcome \in {"created", "updated"}) => Sorted(returned)

\* C5. Idempotence: a second call with the same new_df on the table the first
\* call produced writes and returns the table of the first call.
C5_Idempotence ==
    (pc = "done" /\ outcome \in {"created", "updated"}) =>
        /\ Call(fileExists, fileReadable, fileRows, new_df).rows = fileRows
        /\ Call(fileExists, fileReadable, fileRows, new_df).returned = returned

\* C6. Windowing coverage: for overall_start <= overall_end, every date of
\* [overall_start, overall_end] lies in exactly one of the returned windows.
C6_Coverage ==
    (plan_pc = "returned" /\ plan_start <= plan_end) =>
        \A d \in plan_start..plan_end :
            Cardinality({i \in 1..Len(ranges) :
                            ranges[i][1] <= d /\ d <= ranges[i][2]}) = 1

\* C7. Fresh data wins: after a call on the merge path, for every key of
\* new_df the table holds exactly one row with that key, and it is the last
\* row of new_df with that key.
C7_FreshWins ==
    Merged =>
        \A k \in KeysOf(new_df) :
            /\ Cardinality({i \in 1..Len(fileRows) : KeyOf(fileRows[i]) = k}) = 1
            /\ Cardinality({i \in 1..Len(returned) : KeyOf(returned[i]) = k}) = 1
            /\ LastWith(new_df, k) \in RowsOf(fileRows)
            /\ LastWith(new_df, k) \in RowsOf(returned)

\* new_df held a key twice with different values, and the previous table held
\* that date too
C7_Witness ==
    /\ Merged
    /\ \E i, j \in 1..Len(new_df) :
          /\ i < j /\ KeyOf(new_df[i]) = KeyOf(new_df[j])
          /\ new_df[i].val # new_df[j].val
          /\ new_df[j] \in RowsOf(fileRows)
          /\ \E r \in RowsOf(prevRows) :
                KeyOf(r) = KeyOf(new_df[j]) /\ r.val # new_df[j].val

\* C8. Bootstrap: when there is no file, the call writes and returns the rows
\* of new_df sorted ascending by key, and the file exists afterwards.
C8_Bootstrap ==
    (pc = "done" /\ ~prevExists) =>
        /\ outcome = "created"
        /\ fileExists /\ fileReadable
        /\ fileRows = SortValues(new_df)
        /\ returned = SortValues(new_df)

\* C9. Missing key column: when a row of new_df lacks a key cell, the call
\* fails and the file is as it was before the call.
C9_MissingKey ==
    (pc = "done" /\ LacksKey(new_df)) =>
        /\ outcome \notin {"created", "updated"}
        /\ fileExists = prevExists
        /\ fileReadable = prevReadable
        /\ fileRows = prevRows

\* C10. A file that cannot be loaded is never reset: the call fails with the
\* read error, returns nothing, and the file is not rewritten.
C10_CorruptKept ==
    (pc = "done" /\ prevExists /\ ~prevReadable) =>
        /\ outcome = "ReadError"
        /\ returned = <<>>
        /\ fileExists /\ ~fileReadable
        /\ fileRows = prevRows

\* a call was made on a file that could not be loaded
C10_Witness ==
    pc = "done" /\ prevExists /\ ~prevReadable /\ outcome = "ReadError"

\* C11. History is preserved across runs: in every call on a loadable file, a
\* row of the file dated strictly before the call's cutoff (the earliest date
\* of its new_df) is still a row of the file after the call, so it stays for
\* as long as every later cutoff is later than its date; and no call deletes
\* the file or leaves a file that held rows without rows.
C11_HistoryKept ==
    [][(pc = "idle" /\ pc' = "done") =>
          /\ (fileExists /\ fileReadable) =>
                \A r \in RowsOf(fileRows) :
                    (r.date # NoValue /\ DateMin(new_df') # NoValue
                        /\ r.date < DateMin(new_df'))
                    => r \in RowsOf(fileRows')
          /\ fileExists => fileExists'
          /\ (fileExists /\ fileReadable /\ fileRows # <<>>) => fileRows' # <<>>
      ]_vars

\* C12. Invalid range: called with overall_start later than overall_end, the
\* planner fails (raises) and returns no list of windows.
C12_InvalidRange ==
    (plan_pc # "call" /\ plan_start > plan_end) => plan_pc = "raised"

\* C13. Window shape: for overall_start <= overall_end, every returned window
\* has start <= end and spans at most max_span_days + 1 days, the first
\* window starts at overall_start, and every later window starts one day
\* after the end of the window before it.
C13_WindowShape ==
    (plan_pc = "returned" /\ plan_start <= plan_end) =>
        /\ \A i \in 1..Len(ranges) :
              /\ ranges[i][1] <= ranges[i][2]
              /\ ranges[i][2] - ranges[i][1] + 1 <= plan_max + 1
        /\ Len(ranges) >= 1 => ranges[1][1] = plan_start
        /\ \A i \in 2..Len(ranges) : ranges[i][1] = ranges[i-1][2] + 1

\* the planner returned at least two windows, the first of full span
C13_Witness ==
    /\ plan_pc = "returned" /\ plan_start <= plan_end
    /\ Len(ranges) >= 2
    /\ ranges[1][2] - ranges[1][1] = plan_max

\* the token the call loaded is within the refresh margin of its expiry
NearExpiry ==
    /\ tokens.access_token # NoValue
    /\ now >= tokens.access_token + ExpiresIn - RefreshMargin

\* C18. Valid credential: a token returned by get_pinterest_token is not
\* expired when it is returned; and a call that finds the stored token within
\* the refresh margin of its expiry either fails or returns a new token that
\* it has persisted, never the stored one.
C18_ValidCredential ==
    /\ tok_pc = "returned" =>
          (access_token # NoValue /\ ~Expired(access_token, now))
    /\ (tok_pc # "idle" /\ NearExpiry) =>
          \/ tok_pc = "raised"
          \/ /\ access_token # tokens.access_token
             /\ TOKEN_FILE.access_token = access_token

\* the cells of a table written at A1
TableAt(shape) == {Cell(r, c, "new") : r \in 1..shape.h, c \in 1..shape.w}

\* C16. Full-replace publish: after a successful upload the tab holds exactly
\* the header and rows of the new table and no cell of its prior content,
\* whatever the width and length of that content, and the clear was executed
\* before the write.
C16_FullReplace ==
    sheet_pc = "uploaded" =>
        /\ sheet[sheet_tab] = TableAt(values)
        /\ api_calls = <<"clear", "update">>

\* what a metric cell adds to a sum: nothing when it is absent
Contribution(cell) == IF cell = NoValue THEN 0 ELSE cell

RECURSIVE Total(_, _, _)
Total(rows, g, m) ==
    IF rows = <<>> THEN 0
    ELSE (IF HasGroup(Head(rows)) /\ GroupOf(Head(rows)) = g
          THEN Contribution(Head(rows).cells[m]) ELSE 0)
         + Total(Tail(rows), g, m)

\* C20. Absent metric values: when every metric column exists (and the three
\* required columns too), build_daily_paid_metrics_by_country does not fail,
\* and in every group each sum is the sum of the values that are present: a
\* row whose cell is absent adds 0.
C20_AbsentIsZero ==
    (agg_pc # "call"
        /\ FirstMissingRequired(df_historical.columns) = <<>>
        /\ \A i \in 1..Len(Canonical) : Mapped(df_historical.columns, Canonical[i]))
    => /\ agg_pc = "returned"
       /\ \A i \in 1..Len(agg_df) :
             LET g == <<agg_df[i].date, agg_df[i].campaign_type,
                        agg_df[i].country_code>>
             IN /\ agg_df[i].impression = Total(df_historical.rows, g, "impressions")
                /\ agg_df[i].clicks = Total(df_historical.rows, g, "clicks")
                /\ agg_df[i].spend = Total(df_historical.rows, g, "spend")
                /\ agg_df[i].purchase = Total(df_historical.rows, g, "checkouts")
                /\ agg_df[i].revenue = Total(df_historical.rows, g, "checkout_value")

\* a group was summed that holds a row with a clicks value and a row without
C20_Witness ==
    /\ agg_pc = "returned"
    /\ \E i \in 1..Len(agg_df) :
          /\ agg_df[i].clicks > 0
          /\ \E j \in 1..Len(df_historical.rows) :
                LET r == df_historical.rows[j]
                IN /\ HasGroup(r)
                   /\ GroupOf(r) = <<agg_df[i].date, agg_df[i].campaign_type,
                                     agg_df[i].country_code>>
                   /\ r.cells["clicks"] = NoValue

\* the run has ended
RunEnded == run_pc \in {"finished", "failed", "crashed"}

\* the rows of the chunks whose fetch delivered rows, in the order of the loop
RECURSIVE RowsFetched(_)
RowsFetched(k) ==
    IF k = 0 THEN <<>>
    ELSE RowsFetched(k - 1) \o
         (IF fetched[k] # "rows" THEN <<>>
          ELSE IF script = "paid" THEN WindowRows(chunks[k])
          ELSE PinRows(chunks[k]))

\* C14. Per-window failure does not abort the run: in a run, paid or organic,
\* in which the fetch of a window (a chunk of the loop) failed with an HTTP
\* error, the run is not ended by that failure, every window of the loop has
\* been fetched by the end of the run, the failed ones gave no rows, and
\* append_to_historical_data was called on the rows of the others.
C14_WindowFailure ==
    (RunEnded /\ \E k \in 1..Len(fetched) : fetched[k] = "HTTPError") =>
        /\ caught # "loop"
        /\ Len(fetched) = Len(chunks)
        /\ all_data = RowsFetched(Len(fetched))
        /\ all_data # <<>> => (pc = "done" /\ new_df = all_data)

\* a publish to the spreadsheet has failed in the run
PublishFailed == run_pc = "failed" /\ sheet_pc = "raised"

\* C15. Publish failure does not roll back: when an upload to the Google
\* Sheet fails after append_to_historical_data, the error is caught and
\* printed by the outer except, and the historical file holds what that
\* run's call of append_to_historical_data wrote.
C15_NoRollback ==
    PublishFailed =>
        /\ caught \in {"upload", "upload_daily"}
        /\ pc = "done" /\ Succeeded(outcome)
        /\ fileExists
        /\ fileRows = Call(prevExists, prevReadable, prevRows, new_df).rows

\* an upload failed after a call that changed the historical file
C15_Witness ==
    /\ PublishFailed
    /\ prevExists /\ fileRows # prevRows

\* C17. Paced fetching: in a run, every request to the Pinterest API but the
\* first is sent after a pause (time.sleep(1)) taken since the request
\* before it, also when that request failed.
C17_Paced ==
    [][(requests' > requests /\ requests > 0) => paused]_vars

\* C19. No stored credential: without TOKEN_FILE, get_pinterest_token raises
\* and the run ends there, having sent no request to the Pinterest API.
C19_NoCredential ==
    (run_pc # "import" /\ ~tokenFileExists) =>
        /\ tok_pc = "raised"
        /\ run_pc = "crashed"
        /\ ACCESS_TOKEN = NoValue
        /\ requests = 0

\* a run was started without TOKEN_FILE
C19_Witness ==
    run_pc = "crashed" /\ ~tokenFileExists /\ tok_pc = "raised"

\* the required names a table lacks: required columns, and metrics none of
\* whose candidate columns is there
AbsentRequired(columns) ==
    {required_cols[i] : i \in {j \in 1..Len(required_cols) :
                                  required_cols[j] \notin columns}}
    \cup {Canonical[i] : i \in {j \in 1..Len(Canonical) :
                                   ~Mapped(columns, Canonical[j])}}

\* C21. All missing columns are reported: a table that lacks required columns
\* makes build_daily_paid_metrics_by_country raise one error, which names
\* every required column and every metric that is absent.
C21_AllMissing ==
    (agg_pc # "call" /\ AbsentRequired(df_historical.columns) # {}) =>
        /\ agg_pc = "raised"
        /\ {agg_error[i] : i \in 1..Len(agg_error)}
               = AbsentRequired(df_historical.columns)

\* the column of agg_df that holds the sum of a metric
OutputName ==
    [impressions |-> "impression", clicks |-> "clicks", spend |-> "spend",
     checkouts |-> "purchase", checkout_value |-> "revenue"]

\* the sum of a metric over the rows of a table whose combination is g
RECURSIVE SumOfCombination(_, _, _)
SumOfCombination(rows, g, m) ==
    IF rows = <<>> THEN 0
    ELSE (IF GroupOf(Head(rows)) = g
          THEN Contribution(Head(rows).cells[m]) ELSE 0)
         + SumOfCombination(Tail(rows), g, m)

\* the sum of a metric over all the rows of a table
RECURSIVE InputTotal(_, _)
InputTotal(rows, m) ==
    IF rows = <<>> THEN 0
    ELSE Contribution(Head(rows).cells[m]) + InputTotal(Tail(rows), m)

\* the sum of a column of agg_df
RECURSIVE OutputTotal(_, _)
OutputTotal(out, column) ==
    IF out = <<>> THEN 0
    ELSE Head(out)[column] + OutputTotal(Tail(out), column)

OutputGroup(o) == <<o.date, o.campaign_type, o.country_code>>

\* C22. Grouped sums: the table returned by
\* build_daily_paid_metrics_by_country has exactly one row for each
\* (date, campaign_type, country) combination that occurs in df_historical,
\* each of its sums is the sum of the metric over the input rows of that
\* combination, and every input row is counted in one output row: the total
\* of each metric is the same in the output and in the input.
C22_GroupedSums ==
    agg_pc = "returned" =>
        /\ {OutputGroup(agg_df[i]) : i \in 1..Len(agg_df)}
               = {GroupOf(df_historical.rows[j]) :
                     j \in 1..Len(df_historical.rows)}
        /\ \A i, j \in 1..Len(agg_df) :
               OutputGroup(agg_df[i]) = OutputGroup(agg_df[j]) => i = j
        /\ \A i \in 1..Len(agg_df) : \A k \in 1..Len(Canonical) :
               agg_df[i][OutputName[Canonical[k]]]
                   = SumOfCombination(df_historical.rows,
                                      OutputGroup(agg_df[i]), Canonical[k])
        /\ \A k \in 1..Len(Canonical) :
               OutputTotal(agg_df, OutputName[Canonical[k]])
                   = InputTotal(df_historical.rows, Canonical[k])

\* a campaign name holds the letters a, w, r in a row, each in either case
HasMarker(name) ==
    \E i \in 1..(Len(name) - 2) :
        /\ name[i] \in {"A", "a"}
        /\ name[i + 1] \in {"W", "w"}
        /\ name[i + 2] \in {"R", "r"}

ReconcileFailed ==
    \/ pc = "done" /\ outcome \in {"ReadError", "TypeError"}
    \/ caught = "reconcile"

\* build_daily_paid_metrics_by_country raised in the run
AggregateFailed == agg_pc = "raised"

\* nothing was sent to the spreadsheet in the run
NothingPublished ==
    /\ sheet = [tab \in Tabs |-> {}]
    /\ api_calls = <<>>
    /\ sheet_pc # "uploaded"

\* C25. Abort on reconciliation or aggregation failure: once
\* append_to_historical_data or build_daily_paid_metrics_by_country has
\* raised in a run, the run has stopped in the outer except, and nothing is
\* published after the failure: after a failed reconcile nothing was sent to
\* the spreadsheet at all, and after a failed aggregate the only upload of
\* the run is the one of the historical table, the daily tab is untouched.
C25_AbortOnFailure ==
    /\ ReconcileFailed =>
          /\ run_pc = "failed" /\ caught = "reconcile"
          /\ NothingPublished
    /\ AggregateFailed =>
          /\ run_pc = "failed" /\ caught = "aggregate"
          /\ sheet["Daily Paid Metrics By Country"] = {}
          /\ sheet_tab = "Paid Metrics By Country"

\* the aggregate failed after the historical table was published
C25_Witness ==
    /\ AggregateFailed /\ run_pc = "failed"
    /\ sheet["Paid Metrics By Country"] # {}
    /\ api_calls = <<"clear", "update">>

\* the positions of an access in the log of a call
Positions(log, access) == {i \in 1..Len(log) : log[i] = access}

Refreshed ==
    /\ tok_pc = "returned"
    /\ tokens.access_token # NoValue /\ ~NoExpiryInfo(tokens)
    /\ RefreshDue(tokens, now)

\* C27. Refresh stays possible: when get_pinterest_token has refreshed a
\* stored credential that held an access token, a refresh token and expiry
\* data, the credential it stored holds the new access token, a refresh
\* token and expiry data, so that the next call near expiry refreshes again.
C27_RefreshStaysPossible ==
    Refreshed =>
        /\ TOKEN_FILE.access_token = access_token
        /\ TOKEN_FILE.refresh_token
        /\ ~NoExpiryInfo(TOKEN_FILE)

\* ------------------------------------------------------------ normalizers
\* the blocks of a response, in order: the daily blocks of every pin, or the
\* records of the targeting data
RECURSIVE BlocksOfPins(_)
BlocksOfPins(pins_data) ==
    IF pins_data = <<>> THEN <<>>
    ELSE Head(pins_data).daily_metrics \o BlocksOfPins(Tail(pins_data))

BlocksOf(f, data) ==
    IF f = "get_multiple_pins_analytics" THEN BlocksOfPins(data) ELSE data

\* the metrics a block delivers: none when it has no metrics field
Delivered(f, block) ==
    IF f = "get_multiple_pins_analytics"
    THEN (IF block.has_metrics THEN block.metrics ELSE EmptyDict)
    ELSE (IF block.metrics_kind \in {"dict", "str"} THEN block.metrics
          ELSE EmptyDict)

KeyColumns(f) ==
    IF f = "get_multiple_pins_analytics" THEN {"pin_id", "date", "data_status"}
    ELSE {"targeting_type", "country"}

\* C24: a normalizer never raises, emits one record per block, and each
\* record holds the key columns plus one column per delivered metric, named
\* by the lower-cased metric name and holding the delivered value; a block
\* without a metrics field gives a record of its key columns only.
C24_OneRowPerBlock ==
    norm_pc # "call" =>
        /\ norm_pc = "returned"
        /\ Len(records) = Len(BlocksOf(normalizer, response))
        /\ \A k \in 1..Len(records) :
              LET metrics == Delivered(normalizer, BlocksOf(normalizer, response)[k])
              IN /\ DOMAIN records[k] =
                        KeyColumns(normalizer)
                            \cup {lower(n) : n \in DOMAIN metrics}
                 /\ \A n \in DOMAIN metrics :
                        /\ lower(n) \in DOMAIN records[k]
                        /\ records[k][lower(n)] = metrics[n]

====
